---- MODULE Spec2Model ----
(***************************************************************************)
(* Model of agent/mcp_smart_colab_v2.py: the checkpoint store              *)
(* (get_checkpoint_path, save_checkpoint, load_checkpoint), the transport  *)
(* dispatcher (make_request) and the capabilities that use the store       *)
(* (run_chunked_operation, run_code_long, get_checkpoint).                 *)
(*                                                                         *)
(* A capability call is a caller's walk through the handler's code: pc     *)
(* holds the position, loc the handler's local variables.  The remote      *)
(* backend and the file system are the environment: each dispatch draws    *)
(* the backend's reply, each file write draws the file system's outcome.   *)
(***************************************************************************)
EXTENDS Integers, Sequences, FiniteSets, TLC

VARIABLES
    files,    \* the checkpoint directory: path -> file content
    today,    \* the date datetime.now() reports
    pc,       \* caller -> position in the handler it runs
    loc,      \* caller -> the handler's arguments and local variables
    ret,      \* caller -> what its last finished call gave back
    sent,     \* history: the POST /execute dispatches of chunked calls, in order
    ncalls,   \* history: number of run_chunked_operation calls started
    job,      \* the fixed arguments of the chunked job (job specification only)
    lastSave, \* history: operation -> payload of its most recent save_checkpoint
    loaded,   \* the result of the last direct load_checkpoint (store specification)
    wire,     \* history: the last request made to the backend, and its outcome
    localDir, \* LOCAL_SAVE_DIR: file name -> file content
    io,       \* history: caller -> what its call in progress has done so far
    overlap,  \* history: caller -> another call was in progress when its call began
    restarts  \* history: number of times the process was started again

vars == <<files, today, pc, loc, ret, sent, ncalls, job, lastSave, loaded,
          wire, localDir, io, overlap, restarts>>

---------------------------------------------------------------------------
(* Bounds of the model *)

MaxIter == 2      \* largest n_iterations drawn
MaxBatch == 2     \* largest batch_size drawn
MaxDay == 2       \* dates are 1..MaxDay
MaxJobIter == 5   \* largest n_iterations of a chunked job
MaxJobBatch == 3  \* largest batch_size of a chunked job
MaxExtraCalls == 2 \* calls of a job made after the one that finishes it

---------------------------------------------------------------------------
(* Values *)

Min(a, b) == IF a <= b THEN a ELSE b

Max(a, b) == IF a >= b THEN a ELSE b

\* ceil(a / b) for a >= 0, b >= 1
CeilDiv(a, b) == (a + b - 1) \div b

\* A Python None, an absent file, a caller that runs nothing.
None == [kind |-> "None"]

Callers == {1, 2}

\* An operation (checkpoint) name is a string that pathlib reads as a
\* relative path: directory components, then the last component.
Name(dirs, base) == [dirs |-> dirs, base |-> base]

NameA == Name(<<>>, "a")

NameB == Name(<<>>, "b")

\* "./a"
NameDotA == Name(<<".">>, "a")

\* "" (run_code_long's default checkpoint_name)
NameEmpty == Name(<<>>, "")

OperationNames == {NameA, NameB, NameDotA}

\* A text is known by its identity and its length in characters.
Text(id, len) == [id |-> id, len |-> len]

EmptyText == Text("", 0)

\* s[:k]
Slice(s, k) == IF s.len <= k THEN s ELSE Text(s.id, k)

---------------------------------------------------------------------------
(* Configuration *)

\* CHECKPOINT_DIR, as path components
CHECKPOINT_DIR == <<"home", ".cache", "colab_checkpoints">>

COLAB_URL == "COLAB_URL"

TIMEOUTS == [quick |-> 30, normal |-> 120, long |-> 300, max |-> 600]

Days == 1..MaxDay

---------------------------------------------------------------------------
(* The checkpoint store *)

\* Path(CHECKPOINT_DIR) / f"{operation}_{date}.json": joining a relative path
\* drops its "." components; the date is appended to the last component.
\* get_checkpoint_path without the date in the file name.
get_checkpoint_pathNoDate(operation, date) ==
    [dir  |-> CHECKPOINT_DIR \o SelectSeq(operation.dirs, LAMBDA c : c # "."),
     file |-> [stem |-> operation.base, date |-> 1]]

get_checkpoint_path(operation, date) ==
    [dir  |-> CHECKPOINT_DIR \o SelectSeq(operation.dirs, LAMBDA c : c # "."),
     file |-> [stem |-> operation.base, date |-> date]]

Paths == {get_checkpoint_path(op, d) : op \in OperationNames \cup {NameEmpty}, d \in Days}

\* A file opened for writing and not written yet: zero bytes.
EmptyFile == [kind |-> "empty"]

\* What the file system does with open(path, 'w') followed by json.dump:
\* "ok" writes the text; "denied" makes open raise; "nospace" makes the
\* write raise after open has truncated the file.
WriteOutcomes == {"ok", "denied", "nospace"}

\* The JSON object save_checkpoint dumps; the timestamp is kept to its date.
CheckpointRecord(operation, data, date) ==
    [timestamp |-> date, operation |-> operation, data |-> data]

\* The checkpoint directory after save_checkpoint(operation, data).
save_checkpoint(fs, operation, data, date, w) ==
    LET path == get_checkpoint_path(operation, date) IN
    CASE w = "ok"      -> [fs EXCEPT ![path] = CheckpointRecord(operation, data, date)]
      [] w = "nospace" -> [fs EXCEPT ![path] = EmptyFile]
      [] OTHER         -> fs

Raise(exc) == [kind |-> "raise", exc |-> exc]

IsRaise(v) == "kind" \in DOMAIN v /\ v.kind = "raise"

\* load_checkpoint(operation): None when the file does not exist, the parsed
\* record otherwise; json.load raises on a file that holds no JSON text.
load_checkpoint(fs, operation, date) ==
    LET content == fs[get_checkpoint_path(operation, date)] IN
    IF content = None THEN None
    ELSE IF content = EmptyFile THEN Raise("JSONDecodeError")
    ELSE content

\* dict.get(key, default) on a record
Get(d, key, default) == IF key \in DOMAIN d THEN d[key] ELSE default

---------------------------------------------------------------------------
(* The transport dispatcher *)

ShortOut == Text("out", 12)

LongOut == Text("OUT", 1500)

\* What the backend and the network can do with one request.
OkReply(stdout) ==
    [kind |-> "response", status_code |-> 200, parses |-> TRUE,
     json |-> [stdout |-> stdout, execution_time_sec |-> 1]]

StatusReply(status_code) ==
    [kind |-> "response", status_code |-> status_code, parses |-> FALSE,
     text |-> Text("err", 700)]

Replies ==
    {OkReply(t) : t \in {ShortOut, LongOut}}
    \cup {StatusReply(c) : c \in {200, 404, 500}}
    \cup {[kind |-> "Timeout"], [kind |-> "ConnectionError"], [kind |-> "Exception"]}

\* One reply of each kind the checkpoint can tell apart, and a timeout.
FewReplies == {OkReply(ShortOut), StatusReply(500), [kind |-> "Timeout"]}

\* make_request(method, endpoint, timeout): one request, its outcome as a dict.
\* make_request taking every 2xx status for a success (response.ok in place of
\* status_code == 200).
make_requestAny2xx(method, endpoint, timeout, reply) ==
    CASE reply.kind = "response" /\ reply.status_code \in 200..299 /\ reply.parses ->
            [success |-> TRUE, data |-> reply.json]
      [] reply.kind = "response" /\ reply.status_code \in 200..299 /\ ~reply.parses ->
            [success |-> FALSE, error |-> [tag |-> "JSONDecodeError"]]
      [] reply.kind = "response" /\ reply.status_code \notin 200..299 ->
            [success |-> FALSE, error |-> [tag |-> "HTTP", code |-> reply.status_code],
             body |-> Slice(reply.text, 500)]
      [] reply.kind = "Timeout" ->
            [success |-> FALSE, error |-> [tag |-> "TIMEOUT"], suggestion |-> timeout]
      [] reply.kind = "ConnectionError" ->
            [success |-> FALSE, error |-> [tag |-> "CONNECTION_FAILED"], url |-> COLAB_URL]
      [] OTHER ->
            [success |-> FALSE, error |-> [tag |-> "Exception"]]

\* make_request reporting the default deadline of its signature in place of the
\* deadline it was called with.
make_requestDefaultDeadline(method, endpoint, timeout, reply) ==
    CASE reply.kind = "response" /\ reply.status_code = 200 /\ reply.parses ->
            [success |-> TRUE, data |-> reply.json]
      [] reply.kind = "response" /\ reply.status_code = 200 /\ ~reply.parses ->
            [success |-> FALSE, error |-> [tag |-> "JSONDecodeError"]]
      [] reply.kind = "response" /\ reply.status_code # 200 ->
            [success |-> FALSE, error |-> [tag |-> "HTTP", code |-> reply.status_code],
             body |-> Slice(reply.text, 500)]
      [] reply.kind = "Timeout" ->
            [success |-> FALSE, error |-> [tag |-> "TIMEOUT"],
             suggestion |-> TIMEOUTS.normal]
      [] reply.kind = "ConnectionError" ->
            [success |-> FALSE, error |-> [tag |-> "CONNECTION_FAILED"], url |-> COLAB_URL]
      [] OTHER ->
            [success |-> FALSE, error |-> [tag |-> "Exception"]]

make_request(method, endpoint, timeout, reply) ==
    CASE reply.kind = "response" /\ reply.status_code = 200 /\ reply.parses ->
            [success |-> TRUE, data |-> reply.json]
      [] reply.kind = "response" /\ reply.status_code = 200 /\ ~reply.parses ->
            [success |-> FALSE, error |-> [tag |-> "JSONDecodeError"]]
      [] reply.kind = "response" /\ reply.status_code # 200 ->
            [success |-> FALSE, error |-> [tag |-> "HTTP", code |-> reply.status_code],
             body |-> Slice(reply.text, 500)]
      [] reply.kind = "Timeout" ->
            [success |-> FALSE, error |-> [tag |-> "TIMEOUT"], suggestion |-> timeout]
      [] reply.kind = "ConnectionError" ->
            [success |-> FALSE, error |-> [tag |-> "CONNECTION_FAILED"], url |-> COLAB_URL]
      [] OTHER ->
            [success |-> FALSE, error |-> [tag |-> "Exception"]]

---------------------------------------------------------------------------
(* run_chunked_operation *)

EmptyDict == [k \in {} |-> None]

\* start_idx: the completed count of today's checkpoint, 0 without one.
StartIdx(checkpoint) ==
    IF checkpoint # None
    THEN Get(Get(checkpoint, "data", EmptyDict), "completed", 0)
    ELSE 0

\* The lowest completed count the model follows (a negative batch_size
\* lowers the count without end).
LowestIdx == 0 - 1

\* Mutant: the last batch is not cut at n_iterations.
EndIdxNoClamp(start_idx, batch_size, n_iterations) == start_idx + batch_size

EndIdx(start_idx, batch_size, n_iterations) == Min(start_idx + batch_size, n_iterations)

\* The loop over range(start_idx, end_idx) and the closing print.
LoopPart(loop_code, start_idx, end_idx) ==
    [part |-> "for", from |-> start_idx, to |-> end_idx, body |-> loop_code]

\* Mutant: the setup is sent with every batch.
FullCodeAlwaysSetup(setup_code, loop_code, start_idx, end_idx) ==
    <<[part |-> "setup", body |-> setup_code], LoopPart(loop_code, start_idx, end_idx)>>

\* full_code: the f-string, as the sequence of its parts.
FullCode(setup_code, loop_code, start_idx, end_idx) ==
    IF start_idx = 0
    THEN <<[part |-> "setup", body |-> setup_code], LoopPart(loop_code, start_idx, end_idx)>>
    ELSE <<LoopPart(loop_code, start_idx, end_idx)>>

\* The payload of the progress checkpoint.
ChunkPayload(end_idx, n_iterations, result) ==
    [completed |-> end_idx,
     total |-> n_iterations,
     last_batch_output |->
        IF result.success
        THEN Slice(Get(Get(result, "data", EmptyDict), "stdout", EmptyText), 1000)
        ELSE EmptyText]

\* The returned dict; end_idx / n_iterations raises when n_iterations is 0.
\* progress_pct is kept as the fraction before rounding.
ChunkResponse(end_idx, n_iterations, result, checkpoint_name) ==
    IF n_iterations = 0 THEN Raise("ZeroDivisionError")
    ELSE [completed |-> end_idx,
          remaining |-> n_iterations - end_idx,
          progress_pct |-> [num |-> end_idx * 100, den |-> n_iterations],
          output |-> IF result.success
                     THEN Get(Get(result, "data", EmptyDict), "stdout", EmptyText)
                     ELSE Get(result, "error", None),
          success |-> result.success,
          can_continue |-> end_idx < n_iterations,
          next_command |-> IF end_idx < n_iterations THEN checkpoint_name ELSE None]

\* Lines 315-342: read the checkpoint, fix the range, build the code.
\* The guard on end_idx keeps the counter in the model's range.
ChunkedBegin(p, setup_code, loop_code, n_iterations, batch_size, checkpoint_name) ==
    /\ pc[p] = "idle"
    /\ LET checkpoint == load_checkpoint(files, checkpoint_name, today)
           args == [op |-> "run_chunked_operation",
                    setup_code |-> setup_code, loop_code |-> loop_code,
                    n_iterations |-> n_iterations, batch_size |-> batch_size,
                    checkpoint_name |-> checkpoint_name]
       IN
       IF IsRaise(checkpoint)
       THEN /\ pc' = [pc EXCEPT ![p] = "done"]
            /\ loc' = loc
            /\ ret' = [ret EXCEPT ![p] = checkpoint]
       ELSE LET start_idx == StartIdx(checkpoint)
                end_idx == EndIdx(start_idx, batch_size, n_iterations)
            IN
            /\ end_idx >= LowestIdx
            /\ pc' = [pc EXCEPT ![p] = "chunk_request"]
            /\ loc' = [loc EXCEPT ![p] =
                  args @@ [start_idx |-> start_idx, end_idx |-> end_idx,
                           full_code |-> FullCode(setup_code, loop_code, start_idx, end_idx)]]
            /\ ret' = ret
    /\ UNCHANGED <<files, today>>

\* Lines 344-348: the one POST /execute of the call.
ChunkedRequest(p, reply) ==
    /\ pc[p] = "chunk_request"
    /\ pc' = [pc EXCEPT ![p] = "chunk_save"]
    /\ loc' = [loc EXCEPT ![p] =
          loc[p] @@ [result |-> make_request("POST", "/execute", TIMEOUTS.long + 30, reply)]]
    /\ UNCHANGED <<files, today, ret>>

\* Mutant: the progress checkpoint is saved only when the dispatch succeeded.
ChunkedSaveOnSuccess(p, w) ==
    /\ pc[p] = "chunk_save"
    /\ LET l == loc[p] IN
       /\ files' = IF l.result.success
                   THEN save_checkpoint(files, l.checkpoint_name,
                            ChunkPayload(l.end_idx, l.n_iterations, l.result), today, w)
                   ELSE files
       /\ ret' = [ret EXCEPT ![p] =
             IF w # "ok" THEN Raise("OSError")
             ELSE ChunkResponse(l.end_idx, l.n_iterations, l.result, l.checkpoint_name)]
    /\ pc' = [pc EXCEPT ![p] = "done"]
    /\ loc' = [loc EXCEPT ![p] = None]
    /\ UNCHANGED today

\* Lines 350-365: save the progress checkpoint, then build the response.
\* A write that raises ends the call with the exception.
ChunkedSave(p, w) ==
    /\ pc[p] = "chunk_save"
    /\ LET l == loc[p] IN
       /\ files' = save_checkpoint(files, l.checkpoint_name,
                       ChunkPayload(l.end_idx, l.n_iterations, l.result), today, w)
       /\ ret' = [ret EXCEPT ![p] =
             IF w # "ok" THEN Raise("OSError")
             ELSE ChunkResponse(l.end_idx, l.n_iterations, l.result, l.checkpoint_name)]
    /\ pc' = [pc EXCEPT ![p] = "done"]
    /\ loc' = [loc EXCEPT ![p] = None]
    /\ UNCHANGED today

---------------------------------------------------------------------------
(* run_code_long *)

\* Lines 248-252: the one POST /execute of the call.
LongRequest(p, code, checkpoint_name, reply) ==
    /\ pc[p] = "idle"
    /\ pc' = [pc EXCEPT ![p] = "long_save"]
    /\ loc' = [loc EXCEPT ![p] =
          [op |-> "run_code_long", code |-> code, checkpoint_name |-> checkpoint_name,
           result |-> make_request("POST", "/execute", TIMEOUTS.max + 60, reply)]]
    /\ UNCHANGED <<files, today, ret>>

\* The payload of the checkpoint of a long run.
LongPayload(code, response, date) ==
    [code |-> Slice(code, 500),
     stdout |-> Slice(Get(response, "stdout", EmptyText), 2000),
     execution_time |-> Get(response, "execution_time_sec", None),
     completed_at |-> date]

\* run_code_long saving its checkpoint whenever a name is given, whether the
\* request succeeded or not.
LongSaveAlways(p, w) ==
    /\ pc[p] = "long_save"
    /\ LET l == loc[p]
           response == IF l.result.success THEN l.result.data ELSE l.result
       IN
       IF l.checkpoint_name # NameEmpty
       THEN /\ files' = save_checkpoint(files, l.checkpoint_name,
                            LongPayload(l.code, response, today), today, w)
            /\ ret' = [ret EXCEPT ![p] =
                  IF w # "ok" THEN Raise("OSError")
                  ELSE response @@ [checkpoint_saved |->
                                      get_checkpoint_path(l.checkpoint_name, today)]]
       ELSE /\ files' = files
            /\ ret' = [ret EXCEPT ![p] = response]
    /\ pc' = [pc EXCEPT ![p] = "done"]
    /\ loc' = [loc EXCEPT ![p] = None]
    /\ UNCHANGED today

\* Lines 254-266: checkpoint on request and success, return the response.
LongSave(p, w) ==
    /\ pc[p] = "long_save"
    /\ LET l == loc[p]
           response == IF l.result.success THEN l.result.data ELSE l.result
       IN
       IF l.checkpoint_name # NameEmpty /\ l.result.success
       THEN /\ files' = save_checkpoint(files, l.checkpoint_name,
                            LongPayload(l.code, response, today), today, w)
            /\ ret' = [ret EXCEPT ![p] =
                  IF w # "ok" THEN Raise("OSError")
                  ELSE response @@ [checkpoint_saved |->
                                      get_checkpoint_path(l.checkpoint_name, today)]]
       ELSE /\ files' = files
            /\ ret' = [ret EXCEPT ![p] = response]
    /\ pc' = [pc EXCEPT ![p] = "done"]
    /\ loc' = [loc EXCEPT ![p] = None]
    /\ UNCHANGED today

---------------------------------------------------------------------------
(* get_checkpoint *)

\* Lines 504-508: load_checkpoint, passed through.
GetCheckpoint(p, operation) ==
    /\ pc[p] = "idle"
    /\ LET checkpoint == load_checkpoint(files, operation, today) IN
       ret' = [ret EXCEPT ![p] =
          IF IsRaise(checkpoint) THEN checkpoint
          ELSE IF checkpoint # None THEN [exists |-> TRUE] @@ checkpoint
          ELSE [exists |-> FALSE, message |-> operation]]
    /\ pc' = [pc EXCEPT ![p] = "done"]
    /\ UNCHANGED <<files, today, loc>>

\* The response (or the exception) reaches the caller.
Return(p) ==
    /\ pc[p] = "done"
    /\ pc' = [pc EXCEPT ![p] = "idle"]
    /\ ret' = [ret EXCEPT ![p] = None]
    /\ UNCHANGED <<files, today, loc>>

---------------------------------------------------------------------------
(* Inputs *)

\* n_iterations and batch_size are ints: the valid ones, zero and a negative one.
IterCounts == {-1, 0} \cup (1..MaxIter)

BatchSizes == {-1, 0} \cup (1..MaxBatch)

SetupCode == Text("setup", 20)

LoopCode == Text("loop", 10)

LongCode == Text("code", 600)

\* The callers of a specification with one caller at a time.
SeqCallers == {1}

\* The file names a download is saved under (local_filename, or the last
\* component of remote_path).
LocalNames == {"model.pkl", "out.csv"}

\* A call that has read or written no checkpoint and made no request yet.
NoIo == [requests |-> 0, reads |-> 0, writes |-> 0]

---------------------------------------------------------------------------
(* The capability surface, one call at a time, on one day, with a file      *)
(* system that does not fail                                                *)

\* The state after the module is imported: an empty checkpoint directory
\* (first run), no call in progress.
InitProgram ==
    /\ files = [path \in Paths |-> None]
    /\ today = 1
    /\ pc = [p \in Callers |-> "idle"]
    /\ loc = [p \in Callers |-> None]
    /\ ret = [p \in Callers |-> None]
    /\ sent = <<>>
    /\ ncalls = 0
    /\ lastSave = [op \in OperationNames |-> None]
    /\ loaded = None
    /\ wire = None
    /\ localDir = [f \in LocalNames |-> None]
    /\ io = [p \in Callers |-> NoIo]
    /\ overlap = [p \in Callers |-> FALSE]
    /\ restarts = 0

Init ==
    /\ InitProgram
    /\ job = None

history == <<sent, ncalls, job, lastSave, loaded, wire, localDir, io, overlap, restarts>>

\* The history variables that the job and store specifications leave alone.
later == <<wire, localDir, io, overlap, restarts>>

\* W: what the file system may do with a write; N, B: the n_iterations and
\* batch_size the callers pass.
NextWith(W, N, B) ==
    \E p \in SeqCallers :
        \/ /\ \E n \in N, b \in B, name \in OperationNames :
                  ChunkedBegin(p, SetupCode, LoopCode, n, b, name)
           /\ UNCHANGED history
        \/ /\ \E reply \in FewReplies : ChunkedRequest(p, reply)
           /\ UNCHANGED history
        \/ /\ \E w \in W : ChunkedSave(p, w)
           /\ UNCHANGED history
        \/ /\ \E name \in OperationNames \cup {NameEmpty}, reply \in FewReplies :
                  LongRequest(p, LongCode, name, reply)
           /\ UNCHANGED history
        \/ /\ \E w \in W : LongSave(p, w)
           /\ UNCHANGED history
        \/ /\ \E name \in OperationNames : GetCheckpoint(p, name)
           /\ UNCHANGED history
        \/ /\ Return(p)
           /\ UNCHANGED history

Next == NextWith({"ok"}, IterCounts, BatchSizes)

Spec == Init /\ [][Next]_vars

\* The same calls with a file system whose writes can fail.
NextFaults == NextWith(WriteOutcomes, IterCounts, BatchSizes)

SpecFaults == Init /\ [][NextFaults]_vars

\* The same calls when every caller passes n_iterations >= 1 and batch_size >= 1.
NextValid == NextWith({"ok"}, 1..MaxIter, 1..MaxBatch)

SpecValid == Init /\ [][NextValid]_vars

---------------------------------------------------------------------------
(* One chunked job: run_chunked_operation called again and again, one call  *)
(* at a time, with the same valid arguments and checkpoint name, on one day *)

Jobs ==
    [n_iterations : 1..MaxJobIter, batch_size : 1..MaxJobBatch,
     checkpoint_name : OperationNames]

\* The calls a job needs: ceil(total / batch_size).
CallsNeeded(j) == CeilDiv(j.n_iterations, j.batch_size)

JobInit ==
    /\ InitProgram
    /\ job \in Jobs

\* What the history keeps of one dispatch.
Dispatch(l, result) ==
    [name |-> l.checkpoint_name, from |-> l.start_idx, to |-> l.end_idx,
     code |-> l.full_code, success |-> result.success]

JobBegin(p) ==
    /\ ncalls < CallsNeeded(job) + MaxExtraCalls
    /\ ChunkedBegin(p, SetupCode, LoopCode, job.n_iterations, job.batch_size,
                    job.checkpoint_name)
    /\ ncalls' = ncalls + 1
    /\ UNCHANGED <<sent, job, lastSave, loaded, later>>

JobRequest(p) ==
    /\ \E reply \in Replies : ChunkedRequest(p, reply)
    /\ sent' = Append(sent, Dispatch(loc[p], loc'[p].result))
    /\ UNCHANGED <<ncalls, job, lastSave, loaded, later>>

JobNext ==
    \E p \in SeqCallers :
        \/ JobBegin(p)
        \/ JobRequest(p)
        \/ /\ ChunkedSave(p, "ok")
           /\ UNCHANGED history
        \/ /\ Return(p)
           /\ UNCHANGED history

SpecJob == JobInit /\ [][JobNext]_vars

---------------------------------------------------------------------------
(* The checkpoint store alone: save_checkpoint and load_checkpoint applied  *)
(* to the payloads the capabilities save, on one day                        *)

StorePayloads ==
    {ChunkPayload(1, 2, make_request("POST", "/execute", TIMEOUTS.long + 30, OkReply(ShortOut))),
     ChunkPayload(2, 2, make_request("POST", "/execute", TIMEOUTS.long + 30, [kind |-> "Timeout"])),
     LongPayload(LongCode, OkReply(LongOut).json, 1)}

StoreSave(operation, data) ==
    /\ files' = save_checkpoint(files, operation, data, today, "ok")
    /\ lastSave' = [lastSave EXCEPT ![operation] = data]
    /\ loaded' = None
    /\ UNCHANGED <<today, pc, loc, ret, sent, ncalls, job, later>>

StoreLoad(operation) ==
    /\ loaded' = [operation |-> operation,
                  value |-> load_checkpoint(files, operation, today)]
    /\ UNCHANGED <<files, today, pc, loc, ret, sent, ncalls, job, lastSave, later>>

StoreNext ==
    \/ \E op \in OperationNames, data \in StorePayloads : StoreSave(op, data)
    \/ \E op \in OperationNames : StoreLoad(op)

SpecStore == Init /\ [][StoreNext]_vars

---------------------------------------------------------------------------
(* Properties of one chunked job (SpecJob) *)

\* The call of caller p has finished and its response is ret[p].
Finished(p) == pc[p] = "done"

\* C1: a job started without a checkpoint returns can_continue = false for
\* the first time on call number ceil(total / batch_size); every call before
\* that one returns completed = (call number) * batch_size, so completed grows
\* by exactly batch_size per call, and that call returns completed = total.
C1_CallsToFinish ==
    \A p \in SeqCallers : Finished(p) =>
        /\ ret[p].can_continue = (ncalls < CallsNeeded(job))
        /\ ncalls < CallsNeeded(job) => ret[p].completed = ncalls * job.batch_size
        /\ ncalls = CallsNeeded(job) => ret[p].completed = job.n_iterations

\* A job of at least three calls whose last batch is shorter than batch_size
\* has just returned can_continue = false.
C1_Witness ==
    \E p \in SeqCallers :
        /\ Finished(p)
        /\ ncalls = CallsNeeded(job)
        /\ ncalls >= 3
        /\ job.n_iterations % job.batch_size # 0
        /\ ~ret[p].can_continue
        /\ ret[p].completed = job.n_iterations

\* C2 (as claimed): a call that finds completed >= total_iterations in the
\* checkpoint issues no POST /execute, and returns can_continue = false.
C2_NoDispatchOnceComplete ==
    /\ \A i \in 1..Len(sent) : sent[i].from < job.n_iterations
    /\ \A p \in SeqCallers :
          (Finished(p) /\ ncalls > CallsNeeded(job)) => ~ret[p].can_continue

\* The last dispatch the history holds.
LastSent == sent[Len(sent)]

\* C6: whatever the outcome of the dispatch, the call that made it leaves a
\* checkpoint with completed = end and total = n_iterations, the next call
\* would start at end, and no later dispatch of the job covers an index of an
\* earlier range, failed or not.
C6_AdvanceOnFailure ==
    /\ \A p \in SeqCallers : Finished(p) =>
          LET checkpoint == load_checkpoint(files, job.checkpoint_name, today) IN
          /\ checkpoint # None
          /\ checkpoint.data.completed = LastSent.to
          /\ checkpoint.data.total = job.n_iterations
          /\ StartIdx(checkpoint) = LastSent.to
    /\ \A i, j \in 1..Len(sent) : i < j => sent[j].from >= sent[i].to

\* The first dispatch of a job failed, the call after it has dispatched the
\* range that follows, failed too, and has finished.
C6_Witness ==
    \E p \in SeqCallers :
        /\ Finished(p)
        /\ Len(sent) >= 2
        /\ ~sent[1].success
        /\ sent[1].to > sent[1].from
        /\ sent[2].from = sent[1].to
        /\ ~LastSent.success

ContainsSetup(full_code, setup_code) ==
    \E i \in 1..Len(full_code) : full_code[i] = [part |-> "setup", body |-> setup_code]

\* C9: a dispatched code contains setup_code exactly when its range starts at
\* 0, and in a job that is the first dispatch and no other.
C9_SetupPlacement ==
    \A i \in 1..Len(sent) :
        /\ ContainsSetup(sent[i].code, SetupCode) <=> sent[i].from = 0
        /\ ContainsSetup(sent[i].code, SetupCode) <=> i = 1

\* A job of three batches has dispatched its last range: the first dispatch
\* carried the setup, the second and third did not.
C9_Witness ==
    /\ Len(sent) = 3
    /\ LastSent.to = job.n_iterations
    /\ LastSent.from < LastSent.to
    /\ ContainsSetup(sent[1].code, SetupCode)
    /\ ~ContainsSetup(sent[2].code, SetupCode)
    /\ ~ContainsSetup(sent[3].code, SetupCode)

---------------------------------------------------------------------------
(* Properties of the capability surface (Spec, SpecFaults) *)

\* Caller p runs run_chunked_operation and has made its POST /execute.
Dispatched(p) == pc[p] = "chunk_save"

ValidArgs(l) == l.n_iterations >= 1 /\ l.batch_size >= 1

\* C3 (as claimed): a call with batch_size <= 0 or n_iterations <= 0 is
\* turned away with a validation error: it never makes the dispatch, and so
\* never comes to the checkpoint write that follows it.
C3_ValidationFirst ==
    \A p \in Callers : Dispatched(p) => ValidArgs(loc[p])

\* The payloads that run_chunked_operation saved.
IsChunkRecord(content) ==
    /\ content # None
    /\ content # EmptyFile
    /\ "completed" \in DOMAIN content.data

\* len(range(start_idx, end_idx))
RangeSize(start_idx, end_idx) == Max(0, end_idx - start_idx)

\* C4 (as claimed): every completed count written to a checkpoint or returned
\* lies in 0..total, and a call moves completed by exactly the number of
\* indices in the range(start, end) it dispatched.
C4_ProgressBounds ==
    /\ \A path \in Paths : IsChunkRecord(files[path]) =>
          /\ 0 <= files[path].data.completed
          /\ files[path].data.completed <= files[path].data.total
    /\ \A p \in Callers : Dispatched(p) =>
          loc[p].end_idx - loc[p].start_idx = RangeSize(loc[p].start_idx, loc[p].end_idx)

\* The offset a call for this name would resume from.
ResumeOffset(fs, name) == StartIdx(load_checkpoint(fs, name, today))

\* C5 (as claimed): no step of any call lowers the resume offset of any name.
C5_MonotonicProgress ==
    [][\A name \in OperationNames :
          ResumeOffset(files', name) >= ResumeOffset(files, name)]_vars

\* C10 (as claimed): every call ends with a response, none with an exception.
C10_NoUnhandledError ==
    \A p \in Callers : Finished(p) => ~IsRaise(ret[p])

---------------------------------------------------------------------------
(* Properties of the checkpoint store (SpecStore) *)

\* C7 (as claimed): load_checkpoint(op) gives None when op was never saved
\* today, and otherwise a record whose data is the payload of the most recent
\* save_checkpoint(op, ...).
C7_LastWriteWins ==
    loaded # None =>
        IF lastSave[loaded.operation] = None
        THEN loaded.value = None
        ELSE /\ loaded.value # None
             /\ loaded.value.data = lastSave[loaded.operation]

\* C8 (as claimed): save_checkpoint for a name a leaves what load_checkpoint
\* gives for every other name b as it was.
C8_NamespaceIsolation ==
    [][\A a, b \in OperationNames :
          (a # b /\ \E data \in StorePayloads : StoreSave(a, data)) =>
              load_checkpoint(files', b, today) = load_checkpoint(files, b, today)]_vars

(***************************************************************************)
(* The dispatcher on its own: make_request applied to every method,        *)
(* endpoint and deadline its callers use and to every reply of the         *)
(* backend, the request and its outcome kept in wire.                      *)
(***************************************************************************)

Methods == {"GET", "POST"}

Endpoints == {"/health", "/probe", "/execute", "/files/list", "/cleanup", "/variables"}

\* The deadlines make_request is called with, and the default of its signature.
Deadlines ==
    {TIMEOUTS.quick, TIMEOUTS.normal, TIMEOUTS.normal + 30, TIMEOUTS.long + 30,
     TIMEOUTS.max + 60}

\* How long after the deadline the library gives up, at most.
MaxOverrun == 2

\* The replies to a request with the given deadline: those of Replies, two more
\* statuses, and a timeout raised after each elapsed time from the deadline on.
DispatchReplies(timeout) ==
    Replies
    \cup {StatusReply(c) : c \in {201, 503}}
    \cup {[kind |-> "Timeout", elapsed |-> timeout + d] : d \in 0..MaxOverrun}

\* The kind of outcome a result of make_request is, read off its keys as the
\* callers do.
OutcomeKind(result) ==
    CASE result.success -> "Success"
      [] ~result.success /\ result.error.tag = "HTTP" -> "HttpError"
      [] ~result.success /\ result.error.tag = "TIMEOUT" -> "Timeout"
      [] ~result.success /\ result.error.tag = "CONNECTION_FAILED" -> "ConnectionFailure"
      [] OTHER -> "OtherFailure"

OutcomeKinds == {"Success", "HttpError", "Timeout", "ConnectionFailure", "OtherFailure"}

MakeRequest(method, endpoint, timeout, reply) ==
    /\ wire' = [method |-> method, endpoint |-> endpoint, timeout |-> timeout,
                reply |-> reply,
                result |-> make_request(method, endpoint, timeout, reply)]
    /\ UNCHANGED <<files, today, pc, loc, ret, sent, ncalls, job, lastSave, loaded,
                   localDir, io, overlap, restarts>>

DispatchNext ==
    \E method \in Methods, endpoint \in Endpoints, timeout \in Deadlines :
        \E reply \in DispatchReplies(timeout) :
            MakeRequest(method, endpoint, timeout, reply)

SpecDispatch == Init /\ [][DispatchNext]_vars

\* The result has the keys of exactly one outcome kind.
HasShape(result) ==
    LET keys == DOMAIN result
        kind == OutcomeKind(result)
    IN  /\ kind \in OutcomeKinds
        /\ kind = "Success" => keys = {"success", "data"}
        /\ kind = "HttpError" => keys = {"success", "error", "body"}
        /\ kind = "Timeout" => keys = {"success", "error", "suggestion"}
        /\ kind = "ConnectionFailure" => keys = {"success", "error", "url"}
        /\ kind = "OtherFailure" => keys = {"success", "error"}

\* C11 as stated: every call of make_request returns exactly one outcome kind,
\* with a payload only on Success; a response with status 200 yields Success
\* and every other status yields HttpError carrying the status code.
C11_Status200IsSuccess ==
    wire # None =>
        /\ HasShape(wire.result)
        /\ ("data" \in DOMAIN wire.result) <=> (OutcomeKind(wire.result) = "Success")
        /\ wire.reply.kind = "response" =>
              IF wire.reply.status_code = 200
              THEN OutcomeKind(wire.result) = "Success"
              ELSE /\ OutcomeKind(wire.result) = "HttpError"
                   /\ wire.result.error.code = wire.reply.status_code

\* C11 amended: every call of make_request returns exactly one outcome kind,
\* with a payload only on Success; a response with status 200 yields Success
\* when its body parses as JSON and OtherFailure when it does not, and every
\* other status yields HttpError carrying the status code.
C11_Classification ==
    wire # None =>
        /\ HasShape(wire.result)
        /\ ("data" \in DOMAIN wire.result) <=> (OutcomeKind(wire.result) = "Success")
        /\ wire.reply.kind = "response" =>
              IF wire.reply.status_code = 200
              THEN IF wire.reply.parses
                   THEN /\ OutcomeKind(wire.result) = "Success"
                        /\ wire.result.data = wire.reply.json
                   ELSE OutcomeKind(wire.result) = "OtherFailure"
              ELSE /\ OutcomeKind(wire.result) = "HttpError"
                   /\ wire.result.error.code = wire.reply.status_code

\* A response with status 200 and a body that is not JSON was classified as
\* OtherFailure.
C11_Witness ==
    /\ wire # None
    /\ wire.reply.kind = "response"
    /\ wire.reply.status_code = 200
    /\ ~wire.reply.parses
    /\ OutcomeKind(wire.result) = "OtherFailure"

\* C12: a request that overran its deadline is returned as a Timeout carrying
\* the deadline the request was made with, whatever time had elapsed.
C12_TimeoutCarriesDeadline ==
    (wire # None /\ wire.reply.kind = "Timeout") =>
        /\ OutcomeKind(wire.result) = "Timeout"
        /\ wire.result.suggestion = wire.timeout

\* A request with the deadline of run_chunked_operation timed out after more
\* than the deadline had elapsed.
C12_Witness ==
    /\ wire # None
    /\ wire.reply.kind = "Timeout"
    /\ wire.timeout = TIMEOUTS.long + 30
    /\ wire.reply.elapsed > wire.timeout
    /\ wire.result.suggestion = TIMEOUTS.long + 30

(***************************************************************************)
(* download_from_colab: one GET of /files/download, made directly, and the *)
(* body streamed into a file of LOCAL_SAVE_DIR.                            *)
(***************************************************************************)

LOCAL_SAVE_DIR == "LOCAL_SAVE_DIR"

\* A path on the backend: its directory and its last component.
RemotePath(dir, base) == [dir |-> dir, base |-> base]

basename(remote_path) == remote_path.base

RemotePaths ==
    {RemotePath("/content", "out.csv"), RemotePath("/content/run", "out.csv"),
     RemotePath("/content/run", "")}

LocalFilenames == {""} \cup LocalNames

\* iter_content's chunk_size.
ChunkSize == 8192

\* The body lengths of a download, in bytes.
Lengths == {100, 20000}

\* The replies to the download request: a 200 response whose body arrives in
\* full or breaks off after no or one whole chunk, the other statuses, and the
\* exceptions requests.get raises.
DownloadReplies ==
    UNION {{[kind |-> "response", status_code |-> 200, length |-> l, received |-> r] :
               r \in {l} \cup {k * ChunkSize : k \in {j \in 0..1 : j * ChunkSize < l}}} :
           l \in Lengths}
    \cup {[kind |-> "response", status_code |-> c] : c \in {404, 500, 201}}
    \cup {[kind |-> "Timeout"], [kind |-> "ConnectionError"]}

\* round(size / (1024 ** 2), 2), in hundredths of a megabyte.
SizeMb(size) == (size * 100 + (1024 * 1024) \div 2) \div (1024 * 1024)

\* download_from_colab with the file opened before the status is looked at.
download_from_colabOpenFirst(dir, remote_path, local_filename, reply, o, date) ==
    LET filename == IF local_filename # "" THEN local_filename ELSE basename(remote_path)
        opened == IF filename # "" /\ o = "ok" /\ reply.kind = "response"
                  THEN [dir EXCEPT ![filename] = [from |-> remote_path, bytes |-> 0]]
                  ELSE dir
    IN  CASE reply.kind # "response" ->
                [dir |-> dir,
                 response |-> [success |-> FALSE, error |-> [tag |-> reply.kind]]]
          [] reply.kind = "response" /\ reply.status_code = 404 ->
                [dir |-> opened,
                 response |-> [success |-> FALSE,
                               error |-> [tag |-> "File not found", path |-> remote_path]]]
          [] reply.kind = "response" /\ reply.status_code \notin {200, 404} ->
                [dir |-> opened,
                 response |-> [success |-> FALSE,
                               error |-> [tag |-> "Download failed",
                                          code |-> reply.status_code]]]
          [] OTHER ->
                IF filename = "" \/ o # "ok"
                THEN [dir |-> dir,
                      response |-> [success |-> FALSE, error |-> [tag |-> "OSError"]]]
                ELSE [dir |-> [dir EXCEPT ![filename] =
                                  [from |-> remote_path, bytes |-> reply.received]],
                      response |->
                          IF reply.received < reply.length
                          THEN [success |-> FALSE, error |-> [tag |-> "Exception"]]
                          ELSE [success |-> TRUE,
                                local_path |-> <<LOCAL_SAVE_DIR, filename>>,
                                size_mb |-> SizeMb(reply.received),
                                saved_at |-> date]]

\* The directory and the response download_from_colab leaves: dir is
\* LOCAL_SAVE_DIR before the call, o the outcome of opening the local file.
\* A file name that is empty names the directory itself, and opening it fails.
download_from_colab(dir, remote_path, local_filename, reply, o, date) ==
    LET filename == IF local_filename # "" THEN local_filename ELSE basename(remote_path)
    IN  CASE reply.kind # "response" ->
                [dir |-> dir,
                 response |-> [success |-> FALSE, error |-> [tag |-> reply.kind]]]
          [] reply.kind = "response" /\ reply.status_code = 404 ->
                [dir |-> dir,
                 response |-> [success |-> FALSE,
                               error |-> [tag |-> "File not found", path |-> remote_path]]]
          [] reply.kind = "response" /\ reply.status_code \notin {200, 404} ->
                [dir |-> dir,
                 response |-> [success |-> FALSE,
                               error |-> [tag |-> "Download failed",
                                          code |-> reply.status_code]]]
          [] OTHER ->
                IF filename = "" \/ o # "ok"
                THEN [dir |-> dir,
                      response |-> [success |-> FALSE, error |-> [tag |-> "OSError"]]]
                ELSE [dir |-> [dir EXCEPT ![filename] =
                                  [from |-> remote_path, bytes |-> reply.received]],
                      response |->
                          IF reply.received < reply.length
                          THEN [success |-> FALSE, error |-> [tag |-> "Exception"]]
                          ELSE [success |-> TRUE,
                                local_path |-> <<LOCAL_SAVE_DIR, filename>>,
                                size_mb |-> SizeMb(reply.received),
                                saved_at |-> date]]

DownloadFromColab(p, remote_path, local_filename, reply, o) ==
    /\ pc[p] = "idle"
    /\ LET out == download_from_colab(localDir, remote_path, local_filename, reply, o, today)
       IN  /\ localDir' = out.dir
           /\ ret' = [ret EXCEPT ![p] = out.response]
    /\ wire' = [method |-> "GET", endpoint |-> "/files/download",
                timeout |-> TIMEOUTS.long, remote_path |-> remote_path,
                local_filename |-> local_filename, reply |-> reply]
    /\ pc' = [pc EXCEPT ![p] = "done"]
    /\ UNCHANGED <<files, today, loc, sent, ncalls, job, lastSave, loaded,
                   io, overlap, restarts>>

DownloadNext ==
    \E p \in SeqCallers :
        \/ \E remote_path \in RemotePaths, local_filename \in LocalFilenames,
              reply \in DownloadReplies, o \in {"ok", "denied"} :
               DownloadFromColab(p, remote_path, local_filename, reply, o)
        \/ Return(p) /\ UNCHANGED history

SpecDownload == Init /\ [][DownloadNext]_vars

\* The step is a download by p that the backend answered with a status in S.
DownloadAnswered(p, S) ==
    /\ pc[p] = "idle"
    /\ pc'[p] = "done"
    /\ wire'.reply.kind = "response"
    /\ wire'.reply.status_code \in S

\* C13 as stated: a download answered with 404, or with any other status than
\* 200, returns a failure naming the remote path and leaves every local file
\* as it was.
C13_FailureNamesPath ==
    [][\A p \in SeqCallers :
          DownloadAnswered(p, {404, 500, 201}) =>
              /\ ret'[p].success = FALSE
              /\ "path" \in DOMAIN ret'[p].error
              /\ ret'[p].error.path = wire'.remote_path
              /\ localDir' = localDir]_vars

\* C13 amended: a download answered with 404 returns a failure naming the
\* remote path, one answered with another status than 200 returns a failure
\* carrying the status code and not the path, and both leave every local file
\* as it was.
C13_FailureLeavesNoFile ==
    [][\A p \in SeqCallers :
          /\ DownloadAnswered(p, {404}) =>
                /\ ret'[p].success = FALSE
                /\ ret'[p].error = [tag |-> "File not found", path |-> wire'.remote_path]
                /\ localDir' = localDir
          /\ DownloadAnswered(p, {500, 201}) =>
                /\ ret'[p].success = FALSE
                /\ ret'[p].error = [tag |-> "Download failed",
                                    code |-> wire'.reply.status_code]
                /\ localDir' = localDir]_vars

\* A download over a file already in LOCAL_SAVE_DIR was answered with 404: the
\* failure names the remote path and the file is still there.
C13_Witness ==
    \E p \in SeqCallers :
        /\ pc[p] = "done"
        /\ wire # None
        /\ wire.reply.kind = "response"
        /\ wire.reply.status_code = 404
        /\ ret[p].error = [tag |-> "File not found", path |-> wire.remote_path]
        /\ LET filename == IF wire.local_filename # "" THEN wire.local_filename
                           ELSE basename(wire.remote_path)
           IN  /\ filename \in LocalNames
               /\ localDir[filename] # None
               /\ localDir[filename].bytes > 0

(***************************************************************************)
(* The capabilities that make one request and pass its outcome on:         *)
(* check_colab_connection, probe_colab_environment, run_code_quick,        *)
(* list_colab_files, cleanup_colab, list_colab_variables.                  *)
(***************************************************************************)

SimpleTools ==
    {"check_colab_connection", "probe_colab_environment", "run_code_quick",
     "list_colab_files", "cleanup_colab", "list_colab_variables"}

\* The request each of them makes.
ToolRequest(tool) ==
    CASE tool = "check_colab_connection" ->
            [method |-> "GET", endpoint |-> "/health", timeout |-> TIMEOUTS.quick]
      [] tool = "probe_colab_environment" ->
            [method |-> "GET", endpoint |-> "/probe", timeout |-> TIMEOUTS.quick]
      [] tool = "run_code_quick" ->
            [method |-> "POST", endpoint |-> "/execute", timeout |-> TIMEOUTS.normal + 30]
      [] tool = "list_colab_files" ->
            [method |-> "GET", endpoint |-> "/files/list", timeout |-> TIMEOUTS.quick]
      [] tool = "cleanup_colab" ->
            [method |-> "POST", endpoint |-> "/cleanup", timeout |-> TIMEOUTS.quick]
      [] OTHER ->
            [method |-> "GET", endpoint |-> "/variables", timeout |-> TIMEOUTS.quick]

\* The body /probe answers with.
ProbeReply(gpu_available, ram_gb, minutes) ==
    [kind |-> "response", status_code |-> 200, parses |-> TRUE,
     json |-> [gpu |-> [available |-> gpu_available],
               compute |-> [ram_available_gb |-> ram_gb],
               limits |-> [estimated_session_minutes_remaining |-> minutes]]]

ToolReplies ==
    {ProbeReply(TRUE, 12, 90), ProbeReply(FALSE, 2, 10), OkReply(ShortOut),
     StatusReply(500), [kind |-> "Timeout"]}

\* Lines 167-176: the recommendations probe_colab_environment adds.
Recommendations(data) ==
    LET gpu == Get(data, "gpu", EmptyDict)
        ram_gb == Get(Get(data, "compute", EmptyDict), "ram_available_gb", 0)
        minutes == Get(Get(data, "limits", EmptyDict),
                       "estimated_session_minutes_remaining", 90)
    IN  (IF Get(gpu, "available", FALSE) THEN <<>> ELSE <<[tag |-> "No GPU"]>>)
        \o (IF ram_gb < 4 THEN <<[tag |-> "Low RAM", ram_gb |-> ram_gb]>> ELSE <<>>)
        \o (IF minutes < 30 THEN <<[tag |-> "Session ending soon"]>> ELSE <<>>)

\* What the capability returns for the outcome of its request.
ToolResponse(tool, result) ==
    CASE tool = "check_colab_connection" ->
            IF result.success
            THEN [status |-> "connected", colab_url |-> COLAB_URL] @@ result.data
            ELSE [status |-> "disconnected", error |-> result.error,
                  colab_url |-> COLAB_URL, suggestion |-> "Check if Colab notebook is running"]
      [] tool = "probe_colab_environment" ->
            IF result.success
            THEN [recommendations |-> Recommendations(result.data)] @@ result.data
            ELSE result
      [] OTHER ->
            IF result.success THEN result.data ELSE result

SimpleTool(p, tool, reply) ==
    /\ pc[p] = "idle"
    /\ LET r == ToolRequest(tool) IN
       ret' = [ret EXCEPT ![p] =
                  ToolResponse(tool, make_request(r.method, r.endpoint, r.timeout, reply))]
    /\ pc' = [pc EXCEPT ![p] = "done"]
    /\ UNCHANGED <<files, today, loc>>

(***************************************************************************)
(* Every capability, one call at a time, with what each call does counted: *)
(* io[p] is set to nothing done when p's call starts and counts its         *)
(* requests, its checkpoint reads and its checkpoint writes.               *)
(***************************************************************************)

Count(p, requests, reads, writes) ==
    io' = [io EXCEPT ![p] = [requests |-> @.requests + requests,
                             reads |-> @.reads + reads,
                             writes |-> @.writes + writes]]

Start(p, requests, reads, writes) ==
    io' = [io EXCEPT ![p] = [requests |-> requests, reads |-> reads, writes |-> writes]]

CountedRest == <<sent, ncalls, job, lastSave, loaded, wire, overlap, restarts>>

\* run_chunked_operation that makes its request again when it failed.
CountChunkedRequestRetry(p, reply) ==
    /\ pc[p] = "chunk_request"
    /\ IF make_request("POST", "/execute", TIMEOUTS.long + 30, reply).success
       THEN ChunkedRequest(p, reply)
       ELSE UNCHANGED <<files, today, pc, loc, ret>>
    /\ Count(p, 1, 0, 0)
    /\ UNCHANGED <<CountedRest, localDir>>

\* Lines 344-348: the request of run_chunked_operation.
CountChunkedRequest(p, reply) ==
    /\ ChunkedRequest(p, reply)
    /\ Count(p, 1, 0, 0)
    /\ UNCHANGED <<CountedRest, localDir>>

\* Lines 315-318: run_chunked_operation starts by reading the checkpoint.
CountChunkedBegin(p, n_iterations, batch_size, checkpoint_name) ==
    /\ ChunkedBegin(p, SetupCode, LoopCode, n_iterations, batch_size, checkpoint_name)
    /\ Start(p, 0, 1, 0)
    /\ UNCHANGED <<CountedRest, localDir>>

\* Lines 350-355: the write of run_chunked_operation.
CountChunkedSave(p) ==
    /\ ChunkedSave(p, "ok")
    /\ Count(p, 0, 0, 1)
    /\ UNCHANGED <<CountedRest, localDir>>

\* Lines 248-252: run_code_long starts by making its request.
CountLongRequest(p, checkpoint_name, reply) ==
    /\ LongRequest(p, LongCode, checkpoint_name, reply)
    /\ Start(p, 1, 0, 0)
    /\ UNCHANGED <<CountedRest, localDir>>

\* Lines 257-264: the write of run_code_long, when it makes one.
CountLongSave(p) ==
    /\ LongSave(p, "ok")
    /\ Count(p, 0, 0,
             IF loc[p].checkpoint_name # NameEmpty /\ loc[p].result.success THEN 1 ELSE 0)
    /\ UNCHANGED <<CountedRest, localDir>>

CountGetCheckpoint(p, operation) ==
    /\ GetCheckpoint(p, operation)
    /\ Start(p, 0, 1, 0)
    /\ UNCHANGED <<CountedRest, localDir>>

CountSimpleTool(p, tool, reply) ==
    /\ SimpleTool(p, tool, reply)
    /\ Start(p, 1, 0, 0)
    /\ UNCHANGED <<CountedRest, localDir>>

CountDownload(p, reply) ==
    /\ DownloadFromColab(p, RemotePath("/content", "out.csv"), "", reply, "ok")
    /\ Start(p, 1, 0, 0)

CountReturn(p) ==
    /\ Return(p)
    /\ UNCHANGED history

CountNext ==
    \E p \in SeqCallers :
        \/ \E n \in 1..MaxIter, b \in 1..MaxBatch, name \in OperationNames :
               CountChunkedBegin(p, n, b, name)
        \/ \E reply \in FewReplies : CountChunkedRequest(p, reply)
        \/ CountChunkedSave(p)
        \/ \E name \in {NameA, NameEmpty}, reply \in FewReplies :
               CountLongRequest(p, name, reply)
        \/ CountLongSave(p)
        \/ \E name \in OperationNames : CountGetCheckpoint(p, name)
        \/ \E tool \in SimpleTools, reply \in ToolReplies : CountSimpleTool(p, tool, reply)
        \/ \E reply \in {r \in DownloadReplies :
                            r.kind = "response" /\ r.status_code = 200 => r.received = 100} :
               CountDownload(p, reply)
        \/ CountReturn(p)

SpecCount == Init /\ [][CountNext]_vars

\* C14 as stated: a call makes at most one request and at most one checkpoint
\* access, a read or a write.
C14_OneAccessPerCall ==
    \A p \in SeqCallers :
        /\ io[p].requests <= 1
        /\ io[p].reads + io[p].writes <= 1

\* C14 amended: a call makes at most one request, at most one checkpoint read
\* and at most one checkpoint write, and has made all of them when it returns:
\* a call of run_chunked_operation that returns a response has made its one
\* request, its one read and its one write, in that order.
C14_OneAttemptPerCall ==
    \A p \in SeqCallers :
        /\ io[p].requests <= 1
        /\ io[p].reads <= 1
        /\ io[p].writes <= 1
        /\ pc[p] = "chunk_request" => io[p] = [requests |-> 0, reads |-> 1, writes |-> 0]
        /\ pc[p] = "chunk_save" => io[p] = [requests |-> 1, reads |-> 1, writes |-> 0]
        /\ (pc[p] = "done" /\ "progress_pct" \in DOMAIN ret[p]) =>
              io[p] = [requests |-> 1, reads |-> 1, writes |-> 1]
        /\ pc[p] = "long_save" => io[p] = [requests |-> 1, reads |-> 0, writes |-> 0]

\* A call of run_chunked_operation whose request failed has returned, having
\* made one request, one read and one write.
C14_Witness ==
    \E p \in SeqCallers :
        /\ pc[p] = "done"
        /\ "progress_pct" \in DOMAIN ret[p]
        /\ ~ret[p].success
        /\ io[p] = [requests |-> 1, reads |-> 1, writes |-> 1]

(***************************************************************************)
(* save_checkpoint in its two steps: open(path, 'w') leaves the file with  *)
(* zero bytes, and the record is in the file when json.dump has written it *)
(* and the with block has closed the file.                                 *)
(***************************************************************************)

\* Lines 70-71: the path is fixed and the file is opened, which truncates it.
ChunkedOpen(p) ==
    /\ pc[p] = "chunk_save"
    /\ LET path == get_checkpoint_path(loc[p].checkpoint_name, today) IN
       /\ files' = [files EXCEPT ![path] = EmptyFile]
       /\ loc' = [loc EXCEPT ![p] = loc[p] @@ [path |-> path]]
    /\ pc' = [pc EXCEPT ![p] = "chunk_write"]
    /\ UNCHANGED <<today, ret>>

\* Lines 72-77 and 357-365: the record is written, the response is built.
ChunkedWrite(p) ==
    /\ pc[p] = "chunk_write"
    /\ LET l == loc[p] IN
       /\ files' = [files EXCEPT ![l.path] =
                       CheckpointRecord(l.checkpoint_name,
                           ChunkPayload(l.end_idx, l.n_iterations, l.result), today)]
       /\ ret' = [ret EXCEPT ![p] =
                     ChunkResponse(l.end_idx, l.n_iterations, l.result, l.checkpoint_name)]
    /\ pc' = [pc EXCEPT ![p] = "done"]
    /\ loc' = [loc EXCEPT ![p] = None]
    /\ UNCHANGED today

(***************************************************************************)
(* One chunked job on one day, one call at a time, in a process that can   *)
(* be killed at any point of a call and started again: what the process    *)
(* held in memory is gone, the checkpoint directory is as it was left.     *)
(***************************************************************************)

\* How many times the process is killed.
MaxCrashes == 2

\* What the history keeps of a dispatch: its range, and whether the call went
\* on to write its checkpoint.
Sent(l) == [from |-> l.start_idx, to |-> l.end_idx, written |-> FALSE]

CrashRest == <<job, lastSave, loaded, wire, localDir, io, overlap>>

\* run_chunked_operation writing the checkpoint of its range before it makes
\* the request for it.
CrashBeginWriteAhead(p) ==
    /\ ncalls < CallsNeeded(job) + MaxExtraCalls
    /\ pc[p] = "idle"
    /\ LET checkpoint == load_checkpoint(files, job.checkpoint_name, today)
           start_idx == StartIdx(checkpoint)
           end_idx == EndIdx(start_idx, job.batch_size, job.n_iterations)
       IN
       /\ ~IsRaise(checkpoint)
       /\ pc' = [pc EXCEPT ![p] = "chunk_request"]
       /\ loc' = [loc EXCEPT ![p] =
             [op |-> "run_chunked_operation",
              setup_code |-> SetupCode, loop_code |-> LoopCode,
              n_iterations |-> job.n_iterations, batch_size |-> job.batch_size,
              checkpoint_name |-> job.checkpoint_name,
              start_idx |-> start_idx, end_idx |-> end_idx,
              full_code |-> FullCode(SetupCode, LoopCode, start_idx, end_idx)]]
       /\ files' = save_checkpoint(files, job.checkpoint_name,
                       ChunkPayload(end_idx, job.n_iterations, [success |-> FALSE]),
                       today, "ok")
    /\ ncalls' = ncalls + 1
    /\ UNCHANGED <<today, ret, sent, restarts, CrashRest>>

CrashBegin(p) ==
    /\ ncalls < CallsNeeded(job) + MaxExtraCalls
    /\ ChunkedBegin(p, SetupCode, LoopCode, job.n_iterations, job.batch_size,
                    job.checkpoint_name)
    /\ ncalls' = ncalls + 1
    /\ UNCHANGED <<sent, restarts, CrashRest>>

CrashRequest(p) ==
    /\ \E reply \in FewReplies : ChunkedRequest(p, reply)
    /\ sent' = Append(sent, Sent(loc[p]))
    /\ UNCHANGED <<ncalls, restarts, CrashRest>>

CrashOpen(p) ==
    /\ ChunkedOpen(p)
    /\ UNCHANGED history

CrashWrite(p) ==
    /\ ChunkedWrite(p)
    /\ sent' = [sent EXCEPT ![Len(sent)].written = TRUE]
    /\ UNCHANGED <<ncalls, restarts, CrashRest>>

CrashGet(p) ==
    /\ GetCheckpoint(p, job.checkpoint_name)
    /\ UNCHANGED history

CrashReturn(p) ==
    /\ Return(p)
    /\ UNCHANGED history

\* The process is killed in the middle of a call and started again.
Crash ==
    /\ restarts < MaxCrashes
    /\ \E p \in SeqCallers : pc[p] # "idle"
    /\ pc' = [p \in Callers |-> "idle"]
    /\ loc' = [p \in Callers |-> None]
    /\ ret' = [p \in Callers |-> None]
    /\ restarts' = restarts + 1
    /\ UNCHANGED <<files, today, sent, ncalls, CrashRest>>

CrashNext ==
    \/ \E p \in SeqCallers :
          \/ CrashBegin(p)
          \/ CrashRequest(p)
          \/ CrashOpen(p)
          \/ CrashWrite(p)
          \/ CrashGet(p)
          \/ CrashReturn(p)
    \/ Crash

SpecCrash == JobInit /\ [][CrashNext]_vars

\* C15 as stated: a load of a checkpoint, after a crash in the middle of a
\* save for the same name too, observes a complete record or none: no call
\* ends with the JSONDecodeError of a file that is empty.
C15_LoadSeesWholeRecord ==
    \A p \in SeqCallers :
        pc[p] = "done" => ret[p] # Raise("JSONDecodeError")

\* The indices below the completed count that today's checkpoint of the job
\* holds; none when there is no checkpoint or the file is empty.
StoredIndices ==
    LET content == files[get_checkpoint_path(job.checkpoint_name, today)] IN
    IF IsChunkRecord(content) THEN 0..(content.data.completed - 1) ELSE {}

\* C20: at every point, after a crash anywhere in a call too, every index below
\* the stored completed count lies in a range that was dispatched; and the
\* dispatch after one whose call did not reach its checkpoint write (the
\* process was killed between the two) is of the same range again, the
\* dispatch after one that did starts where that one ended.
C20_CheckpointFollowsDispatch ==
    /\ \A i \in StoredIndices :
          \E k \in 1..Len(sent) : sent[k].from <= i /\ i < sent[k].to
    /\ \A k \in 1..(Len(sent) - 1) :
          IF sent[k].written
          THEN sent[k + 1].from = sent[k].to
          ELSE /\ sent[k + 1].from = sent[k].from
               /\ sent[k + 1].to = sent[k].to

\* The process was killed after the first dispatch and before its checkpoint
\* write; the next call dispatched the same range and wrote its checkpoint.
C20_Witness ==
    /\ restarts >= 1
    /\ Len(sent) >= 2
    /\ ~sent[1].written
    /\ sent[1].from < sent[1].to
    /\ sent[2].from = sent[1].from
    /\ sent[2].to = sent[1].to
    /\ sent[2].written
    /\ StoredIndices = 0..(sent[2].to - 1)

(***************************************************************************)
(* One chunked job, one call at a time, over the days: the date can change *)
(* at any point, between two calls and inside one.  The history keeps the  *)
(* day and the start of every call, and the day and the completed count of *)
(* every checkpoint write.                                                 *)
(***************************************************************************)

Began(l, date) ==
    [type |-> "begin", date |-> date, from |-> l.start_idx,
     setup |-> \E i \in 1..Len(l.full_code) : l.full_code[i].part = "setup"]

Saved(l, date) == [type |-> "save", date |-> date, completed |-> l.end_idx]

DayRest == <<job, lastSave, loaded, wire, localDir, io, overlap, restarts>>

DayBegin(p) ==
    /\ ncalls < CallsNeeded(job) + MaxExtraCalls
    /\ ChunkedBegin(p, SetupCode, LoopCode, job.n_iterations, job.batch_size,
                    job.checkpoint_name)
    /\ ncalls' = ncalls + 1
    /\ sent' = Append(sent, Began(loc'[p], today))
    /\ UNCHANGED DayRest

DayRequest(p) ==
    /\ \E reply \in FewReplies : ChunkedRequest(p, reply)
    /\ UNCHANGED history

DaySave(p) ==
    /\ ChunkedSave(p, "ok")
    /\ sent' = Append(sent, Saved(loc[p], today))
    /\ UNCHANGED <<ncalls, DayRest>>

DayReturn(p) ==
    /\ Return(p)
    /\ UNCHANGED history

\* Midnight: datetime.now() gives the next date from here on.
NewDay ==
    /\ today < MaxDay
    /\ today' = today + 1
    /\ UNCHANGED <<files, pc, loc, ret, history>>

DayNext ==
    \/ \E p \in SeqCallers :
          \/ DayBegin(p)
          \/ DayRequest(p)
          \/ DaySave(p)
          \/ DayReturn(p)
    \/ NewDay

SpecDays == JobInit /\ [][DayNext]_vars

\* The entries of the history before entry k that are checkpoint writes made
\* on the day d.
SavesBefore(k, d) ==
    {j \in 1..(k - 1) : sent[j].type = "save" /\ sent[j].date = d}

\* The calls of the history.
Begins == {k \in 1..Len(sent) : sent[k].type = "begin"}

\* C16 as stated: a call of the job that is the next call after the date
\* changed (the call before it began on another day) resumes from start = 0,
\* with the setup code.
C16_NextCallAfterMidnightRestarts ==
    \A k \in Begins : \A j \in Begins :
        (j < k /\ (\A i \in Begins : ~(j < i /\ i < k)) /\ sent[j].date # sent[k].date) =>
            /\ sent[k].from = 0
            /\ sent[k].setup

\* C16 amended: a file of a day holds a record only when a checkpoint was
\* written on that day; a call on a day on which no checkpoint has been
\* written yet resumes from start = 0, with the setup code, whatever the
\* completed counts of the days before; and a call on a day on which one has
\* been written resumes from the completed count of the last one written that
\* day, also when the call that wrote it began the day before.
C16_DayScoping ==
    /\ \A d \in Days :
          SavesBefore(Len(sent) + 1, d) = {} =>
              files[get_checkpoint_path(job.checkpoint_name, d)] = None
    /\ \A k \in Begins :
          LET saves == SavesBefore(k, sent[k].date) IN
          IF saves = {}
          THEN /\ sent[k].from = 0
               /\ sent[k].setup
          ELSE sent[k].from = sent[CHOOSE j \in saves : \A i \in saves : i <= j].completed

\* A call on the second day resumed from 0 with the setup code, after a
\* checkpoint with a completed count above 0 was written on the first day.
C16_Witness ==
    \E k \in Begins :
        /\ sent[k].date = 2
        /\ sent[k].from = 0
        /\ sent[k].setup
        /\ SavesBefore(k, 2) = {}
        /\ \E j \in SavesBefore(k, 1) : sent[j].completed > 0
        /\ IsChunkRecord(files[get_checkpoint_path(job.checkpoint_name, 1)])

\* The step is the end of a call of run_code_long by p.
LongEnds(p) == pc[p] = "long_save" /\ pc'[p] = "done"

\* C17: a call of run_code_long with a name and a request that succeeded
\* leaves today's file of the name holding the record of the call (the code
\* cut to 500 characters, the output cut to 2000) and returns its path; a call
\* without a name, or whose request failed, leaves the checkpoint directory
\* as it was and returns no path.
C17_LongCheckpoint ==
    [][\A p \in SeqCallers : LongEnds(p) =>
          LET l == loc[p] IN
          IF l.checkpoint_name # NameEmpty /\ l.result.success
          THEN /\ files' = [files EXCEPT ![get_checkpoint_path(l.checkpoint_name, today)] =
                              CheckpointRecord(l.checkpoint_name,
                                  LongPayload(l.code, l.result.data, today), today)]
               /\ files'[get_checkpoint_path(l.checkpoint_name, today)].data.code.len <= 500
               /\ "checkpoint_saved" \in DOMAIN ret'[p]
          ELSE /\ files' = files
               /\ "checkpoint_saved" \notin DOMAIN ret'[p]]_vars

\* A call of run_code_long with a name has ended without a checkpoint, its
\* request having failed, while a chunked checkpoint of the name is in place.
C17_Witness ==
    \E p \in SeqCallers :
        /\ pc[p] = "done"
        /\ "success" \in DOMAIN ret[p]
        /\ ~ret[p].success
        /\ "completed" \notin DOMAIN ret[p]
        /\ IsChunkRecord(files[get_checkpoint_path(NameA, today)])

(***************************************************************************)
(* One chunked job on one day, one call at a time, in a process that can   *)
(* be stopped and started again between two calls: the module is loaded    *)
(* again, lines 47-49 find the directories in place (exist_ok) and leave   *)
(* the files in them.                                                      *)
(***************************************************************************)

\* How many times the process is started again.
MaxRestarts == 2

\* A start of the process that empties the checkpoint directory.
RestartWipes ==
    /\ restarts < MaxRestarts
    /\ \A p \in Callers : pc[p] = "idle"
    /\ restarts' = restarts + 1
    /\ files' = [path \in Paths |-> None]
    /\ pc' = [p \in Callers |-> "idle"]
    /\ loc' = [p \in Callers |-> None]
    /\ ret' = [p \in Callers |-> None]
    /\ UNCHANGED <<today, sent, ncalls, job, lastSave, loaded, wire, localDir, io, overlap>>

\* The process is stopped between two calls and started again: nothing of
\* what it held in memory is left, the files are.
Restart ==
    /\ restarts < MaxRestarts
    /\ \A p \in Callers : pc[p] = "idle"
    /\ restarts' = restarts + 1
    /\ files' = files
    /\ pc' = [p \in Callers |-> "idle"]
    /\ loc' = [p \in Callers |-> None]
    /\ ret' = [p \in Callers |-> None]
    /\ UNCHANGED <<today, sent, ncalls, job, lastSave, loaded, wire, localDir, io, overlap>>

\* The history keeps, with each dispatch, how many times the process had been
\* started again when it was made.
RestartRequest(p) ==
    /\ \E reply \in FewReplies : ChunkedRequest(p, reply)
    /\ sent' = Append(sent, Dispatch(loc[p], loc'[p].result) @@ [restarts |-> restarts])
    /\ UNCHANGED <<ncalls, job, lastSave, loaded, later>>

RestartNext ==
    \/ \E p \in SeqCallers :
          \/ JobBegin(p)
          \/ RestartRequest(p)
          \/ ChunkedSave(p, "ok") /\ UNCHANGED history
          \/ Return(p) /\ UNCHANGED history
    \/ Restart

\* The jobs under one name.
RestartInit ==
    /\ InitProgram
    /\ job \in {j \in Jobs : j.checkpoint_name = NameA}

SpecRestart == RestartInit /\ [][RestartNext]_vars

\* C18: however often the process is started again between the calls, the
\* ranges dispatched and the results returned are those of a process that is
\* never restarted: call k dispatches [min((k-1)b, n), min(kb, n)) and returns
\* completed = min(kb, n), remaining = n - completed and the success of its
\* own request.
C18_StatelessEngine ==
    LET n == job.n_iterations
        b == job.batch_size
    IN  /\ \A k \in 1..Len(sent) :
              /\ sent[k].from = Min((k - 1) * b, n)
              /\ sent[k].to = Min(k * b, n)
              /\ sent[k].code = FullCode(SetupCode, LoopCode, sent[k].from, sent[k].to)
        /\ \A p \in SeqCallers : Finished(p) =>
              /\ ret[p].completed = Min(ncalls * b, n)
              /\ ret[p].remaining = n - Min(ncalls * b, n)
              /\ ret[p].success = sent[ncalls].success
              /\ ret[p].can_continue = (ncalls * b < n)

\* The process was started again between the first call and the second, and
\* the second call went on from where the first ended.
C18_Witness ==
    \E p \in SeqCallers :
        /\ Finished(p)
        /\ Len(sent) = 2
        /\ sent[1].restarts = 0
        /\ sent[2].restarts = 1
        /\ sent[1].to > 0
        /\ sent[2].from = sent[1].to
        /\ sent[2].to > sent[2].from
        /\ ret[p].completed = sent[2].to

(***************************************************************************)
(* One chunked job on one day, called by two callers that do not wait for  *)
(* each other: each step of a call is one step, and the steps of the two   *)
(* calls interleave in every order.                                        *)
(***************************************************************************)

\* The largest n_iterations of the job, and the calls made in all.
MaxConcIter == 3
MaxCalls == 4

ConcRest == <<job, lastSave, loaded, wire, localDir, io, restarts>>

\* The jobs under one name.
ConcInit ==
    /\ InitProgram
    /\ job \in [n_iterations : 1..MaxConcIter, batch_size : 1..MaxBatch,
                checkpoint_name : {NameA}]

\* The history keeps the range of a dispatch, the caller, and whether the call
\* began when no other call was in progress.
ConcSent(p, l) ==
    [from |-> l.start_idx, to |-> l.end_idx, by |-> p, alone |-> ~overlap[p]]

ConcBegin(p) ==
    /\ ncalls < MaxCalls
    /\ ChunkedBegin(p, SetupCode, LoopCode, job.n_iterations, job.batch_size,
                    job.checkpoint_name)
    /\ ncalls' = ncalls + 1
    /\ overlap' = [overlap EXCEPT ![p] = \E q \in Callers \ {p} : pc[q] # "idle"]
    /\ UNCHANGED <<sent, ConcRest>>

ConcRequest(p) ==
    /\ \E reply \in {OkReply(ShortOut), [kind |-> "Timeout"]} : ChunkedRequest(p, reply)
    /\ sent' = Append(sent, ConcSent(p, loc[p]))
    /\ UNCHANGED <<ncalls, overlap, ConcRest>>

ConcSave(p) ==
    /\ ChunkedSave(p, "ok")
    /\ UNCHANGED history

ConcReturn(p) ==
    /\ Return(p)
    /\ UNCHANGED history

ConcNext ==
    \E p \in Callers :
        \/ ConcBegin(p)
        \/ ConcRequest(p)
        \/ ConcSave(p)
        \/ ConcReturn(p)

SpecConc == ConcInit /\ [][ConcNext]_vars

\* The dispatches up to the k-th were all made by calls that began when no
\* other call was in progress.
Sequential(k) == \A i \in 1..k : sent[i].alone

\* How many of the first k dispatches hold the index i.
TimesSent(i, k) == Cardinality({j \in 1..k : sent[j].from <= i /\ i < sent[j].to})

\* C19: as long as the calls are made one after the other, the ranges
\* dispatched are contiguous from 0 and of batch_size (the last one cut at
\* total), no index is dispatched twice, and when a call reports the job
\* finished every index of [0, total) has been dispatched exactly once.
C19_ExactlyOnceSequential ==
    LET n == job.n_iterations
        b == job.batch_size
    IN  /\ \A k \in 1..Len(sent) : Sequential(k) =>
              /\ sent[k].from = (IF k = 1 THEN 0 ELSE sent[k - 1].to)
              /\ sent[k].to = Min(sent[k].from + b, n)
              /\ \A i \in 0..(n - 1) : TimesSent(i, k) <= 1
        /\ \A p \in Callers :
              (Finished(p) /\ ~ret[p].can_continue /\ Sequential(Len(sent))) =>
                  \A i \in 0..(n - 1) : TimesSent(i, Len(sent)) = 1

\* Two calls made one after the other dispatched [0, b) and [b, 2b); then two
\* calls in progress at the same time read the same start and both dispatched
\* the range from 2b on.
C19_Witness ==
    /\ Len(sent) = 4
    /\ Sequential(2)
    /\ sent[1].from = 0
    /\ sent[2].from = sent[1].to
    /\ sent[3].from = sent[2].to
    /\ sent[3].to > sent[3].from
    /\ sent[4].from = sent[3].from
    /\ sent[4].to = sent[3].to
    /\ sent[4].by # sent[3].by
    /\ ~sent[4].alone
    /\ TimesSent(sent[3].from, 4) = 2

====
